---- MODULE Spec2Model ----
(***************************************************************************)
(* The entity-search layer of hooks/use-entity-search.ts (v4):             *)
(* useEntitySearch (debounced search over a shared TanStack Query cache),  *)
(* getLabel, seed and the "__new:" codec.                                  *)
(*                                                                         *)
(* Strings are sequences of one-character strings, so that startsWith,     *)
(* slice and length are computed and not assumed.  The hook's two library  *)
(* calls are modelled by what the libraries do:                            *)
(*   useDebouncedValue(search, 300): every change of `search` cancels the  *)
(*     running timer and arms a new one; when it fires the debounced value *)
(*     becomes the value typed last.                                       *)
(*   useQuery: one Query per key in the shared cache; an observer fetches  *)
(*     when its key changes to an enabled key whose query has no data or   *)
(*     is stale; a query that is already fetching is not fetched again; a  *)
(*     failed attempt is retried up to `retry` times (library default 3,   *)
(*     the hook passes no retry option) unless the last observer left; a   *)
(*     fetch is never aborted (queryFn does not read the AbortSignal);     *)
(*     placeholderData (prev) => prev shows the data of the last query     *)
(*     with data while the current one is pending.                         *)
(***************************************************************************)
EXTENDS Integers, Sequences, FiniteSets, TLC

VARIABLES
    mounted,          \* session -> the hook instance is mounted
    search,           \* session -> useState("") of line 134
    debouncedSearch,  \* session -> useDebouncedValue(search, 300)[0]
    timer,            \* session -> ticks left on the debounce timer, or Off
    elapsed,          \* session -> ticks since the last change of search (ghost)
    lastKey,          \* session -> the observer's last query with defined data
    race,             \* session -> a superseded call of this session (ghost)
    skipped,          \* session -> the last burst overwrote a text unsettled (ghost)
    query,            \* text -> the Query under [entityKey, "search", text]
    outstanding,      \* text -> searchFn(text) promises not yet settled
    answer,           \* text -> what searchFn(text) last resolved with (ghost)
    entityCache,      \* id -> the data under [entityKey, id], present keys only
    minChars, retry,  \* the hook's minChars and the QueryClient's retry
    live,             \* the sessions that may mount
    labelArg, labelOut, \* the last getLabel call and what it returned
    codecArg, codecOut, \* the last codec call and what it returned
    component,        \* which component renders: "v3", "v4", "v4multi" (the
                      \* creatable fields), "multi" or "v3multi" (the plain
                      \* multi-value fields)
    storeMode,        \* the creatable field's storeMode prop
    creatable,        \* the v3 field's creatable prop
    maxValues,        \* the multi field's maxValues prop
    hook,             \* the searchHook prop: search, options, isLoading
    fieldValue,       \* field.state.value of a single-value field
    selectedValues,   \* field.state.value of a multi-value field
    delivered,        \* what the submit schema handed on last
    ids,              \* the ids useResolvedLabels is rendered with, or NoIds
    idFetch,          \* id -> queryFn promises of [entityKey, id] not yet settled
    seedNote,         \* the last noted seed() call (ghost)
    form,             \* the FormApi's state: values, defaultValues, fieldMeta
    status,           \* useDraft's useState<DraftStatus>("idle")
    lastSavedAt,      \* useDraft's useState<Date | null>(null); 0 is null
    inflight,         \* the values of the onSaveDraft calls not yet settled
    draftSchema,      \* the draftSchema option, or "none"
    resetAfterSave,   \* the resetAfterSave option
    autoPending,      \* the onChange listener's debounce is running
    draftNote         \* saveDraft calls, onSaveDraft calls, values saved last (ghost)

vars == <<mounted, search, debouncedSearch, timer, elapsed, lastKey, race, skipped,
          query, outstanding, answer, entityCache, minChars, retry, live,
          labelArg, labelOut, codecArg, codecOut, component, storeMode, creatable,
          maxValues, hook, fieldValue, selectedValues, delivered, ids, idFetch,
          seedNote, form, status, lastSavedAt, inflight, draftSchema,
          resetAfterSave, autoPending, draftNote>>

sessionVars == <<mounted, search, debouncedSearch, timer, elapsed, lastKey, race,
                 skipped>>
configVars == <<minChars, retry, live>>
labelVars == <<labelArg, labelOut>>
codecVars == <<codecArg, codecOut>>
fieldVars == <<component, storeMode, creatable, maxValues, hook, fieldValue,
               selectedValues, delivered>>
resolveVars == <<ids, idFetch>>
hookVars == <<sessionVars, query, outstanding, answer, configVars, labelVars>>
draftVars == <<form, status, lastSavedAt, inflight, draftSchema, resetAfterSave,
               autoPending, draftNote>>
extVars == <<codecVars, fieldVars, resolveVars, seedNote, draftVars>>

-----------------------------------------------------------------------------
(* Bounds and inputs *)

\* clock ticks per debounce delay (one tick is 300 / TicksPerDelay ms)
TicksPerDelay == 1

\* TanStack Query's default `retry` for a query that sets none
DefaultRetry == 3

Sessions == {"s1", "s2"}

Null == <<"null">>
NoKey == <<"nokey">>
NoCall == <<"nocall">>
NoIds == <<NoCall>>
Off == -1

Texts == {<<>>, <<"a">>, <<"a", "b">>}

c1 == <<"c", "1">>
c2 == <<"c", "2">>
Acme == <<"A">>
AcmeInc == <<"A", "i">>
Beta == <<"B">>
c3 == <<"c", "3">>
Gamma == <<"G">>

Opt(v, l) == [value |-> v, label |-> l]

\* what the integrator's searchFn may resolve with (ids unique within a list)
ResultLists == {<<>>, <<Opt(c1, AcmeInc), Opt(c2, Beta)>>}

\* what seed() may be called with
SeedLists == {<<Opt(c1, Acme)>>}

\* seed() inputs of the cache specification: a list that differs from a search
\* result on an id, one that shares no id with it, and one that repeats it
CacheSeedLists == {<<Opt(c1, Acme)>>, <<Opt(c3, Gamma)>>,
                   <<Opt(c1, AcmeInc), Opt(c2, Beta)>>}

-----------------------------------------------------------------------------
(* The "__new:" codec *)

CREATED_PREFIX == <<"_", "_", "n", "e", "w", ":">>

startsWith(s, p) == Len(s) >= Len(p) /\ SubSeq(s, 1, Len(p)) = p

slice(s, n) == SubSeq(s, n + 1, Len(s))

isCreatedValue(value) == value # Null /\ startsWith(value, CREATED_PREFIX)

\* (mutant) the name is cut one character early
parseCreatedName_KeepColon(value) == slice(value, Len(CREATED_PREFIX) - 1)

parseCreatedName(value) == slice(value, Len(CREATED_PREFIX))

makeCreatedValue(name) == CREATED_PREFIX \o name

NewX == makeCreatedValue(<<"X">>)

\* longest name of the codec specification
MaxNameLen == 4

SeqsUpTo(S, n) == UNION {[1..k -> S] : k \in 0..n}

\* names a user may type: short strings, and strings that hold the prefix
CodecNames ==
    SeqsUpTo({"X", ":", "_"}, MaxNameLen) \cup {CREATED_PREFIX, NewX, <<"X">> \o NewX}

\* field values the codec may be asked about: names, encoded names, null and
\* near misses of the prefix
CodecIds ==
    CodecNames \cup {makeCreatedValue(n) : n \in SeqsUpTo({"X", ":", "_"}, 2)}
               \cup {Null, c1, <<"_", "_", "n", "e", "w">>, <<"_", "n", "e", "w", ":">>,
                     <<"_", "_", "N", "e", "w", ":", "X">>}

\* seed() inputs of the label specification: an empty label, and an entry
\* stored under a string of the sentinel's shape
LabelSeedLists == {<<Opt(c1, Acme)>>, <<Opt(c2, <<>>), Opt(NewX, Beta)>>}

\* what getLabel() may be called with
LabelArgs == {Null, <<>>, c1, c2, NewX, CREATED_PREFIX}

-----------------------------------------------------------------------------
(* The creatable fields *)

\* most values the model lets an unlimited multi-value field hold
MaxSelected == 2

AcmeCorp == <<"A", "c">>

CREATE_SENTINEL == <<"$", "c", "r", "e", "a", "t", "e">>

\* the v3 field's create value, "__create__"
CREATE_V3 == <<"_", "_", "c", "r", "e", "a", "t", "e", "_", "_">>

\* what the user may have typed into the field's search box
FieldTexts == {<<>>, Acme, AcmeCorp, <<"a", "c">>, <<"A", "C">>, NewX}

\* the options the hook may hand to the field
FieldOptionLists == {<<>>, <<Opt(c1, AcmeCorp)>>, <<Opt(c1, AcmeCorp), Opt(c2, Beta)>>}

toLowerCaseChar(ch) ==
    CASE ch = "A" -> "a" [] ch = "B" -> "b" [] ch = "C" -> "c"
      [] ch = "N" -> "n" [] ch = "X" -> "x" [] OTHER -> ch

toLowerCase(str) == [i \in 1..Len(str) |-> toLowerCaseChar(str[i])]

includes(list, v) == \E i \in 1..Len(list) : list[i] = v

RECURSIVE filterOut(_, _)
filterOut(list, v) ==
    IF list = <<>> THEN <<>>
    ELSE IF Head(list) = v THEN filterOut(Tail(list), v)
    ELSE <<Head(list)>> \o filterOut(Tail(list), v)

\* options.some((o) => o.label.toLowerCase() === search.toLowerCase())
exactMatch(opts, text) ==
    \E i \in 1..Len(opts) : toLowerCase(opts[i].label) = toLowerCase(text)

\* (mutant) the create option does not wait for the search to finish
showCreate_WhileLoading(text, loading, opts) ==
    Len(text) > 0 /\ ~exactMatch(opts, text)

\* search.length > 0 && !isLoading && !exactMatch
showCreate(text, loading, opts) ==
    Len(text) > 0 /\ ~loading /\ ~exactMatch(opts, text)

alreadySelected(mode, selected, text) ==
    IF mode = "name"
    THEN \E i \in 1..Len(selected) : toLowerCase(selected[i]) = toLowerCase(text)
    ELSE \E i \in 1..Len(selected) :
            /\ isCreatedValue(selected[i])
            /\ toLowerCase(parseCreatedName(selected[i])) = toLowerCase(text)

showCreateMulti(mode, selected, text, loading, opts) ==
    showCreate(text, loading, opts) /\ ~alreadySelected(mode, selected, text)

\* v3: creatable && search.length > 0 && options.length === 0 && !isLoading
showCreate_v3(canCreate, text, loading, opts) ==
    canCreate /\ Len(text) > 0 /\ Len(opts) = 0 /\ ~loading

\* the value of the Combobox.Option rendered for option o
optionValue(mode, o) == IF mode = "name" THEN o.label ELSE o.value

\* (mutant) a create stores the sentinel in either mode
handleSubmit_AlwaysSentinel(mode, text, val) ==
    IF val = CREATE_SENTINEL THEN makeCreatedValue(text) ELSE val

\* what handleSubmit(val) stores (single field) or toggles (multi field)
handleSubmit(mode, text, val) ==
    IF val = CREATE_SENTINEL
    THEN IF mode = "name" THEN text ELSE makeCreatedValue(text)
    ELSE val

\* v3 onOptionSubmit(val)
onOptionSubmit_v3(text, val) == IF val = CREATE_V3 THEN text ELSE val

\* (mutant) the cap is tested before the toggle
handleSubmitMulti_CapFirst(selected, newValue, max) ==
    IF max > 0 /\ Len(selected) >= max
    THEN [f |-> selected, done |-> FALSE]
    ELSE IF includes(selected, newValue)
         THEN [f |-> filterOut(selected, newValue), done |-> TRUE]
         ELSE [f |-> Append(selected, newValue), done |-> TRUE]

\* the multi field's toggle of newValue; f is the value field.handleChange gets,
\* done is whether the handler ran to its end
handleSubmitMulti(selected, newValue, max) ==
    IF includes(selected, newValue)
    THEN [f |-> filterOut(selected, newValue), done |-> TRUE]
    ELSE IF max > 0 /\ Len(selected) >= max
         THEN [f |-> selected, done |-> FALSE]
         ELSE [f |-> Append(selected, newValue), done |-> TRUE]

\* handleSelect(val) of the v4 EntityMultiSearchField: what field.handleChange
\* gets, and whether the handler ran to its end
handleSelect(selected, val, max) ==
    IF includes(selected, val)
    THEN [f |-> filterOut(selected, val), done |-> TRUE]
    ELSE IF max > 0 /\ Len(selected) >= max
         THEN [f |-> selected, done |-> FALSE]
         ELSE [f |-> Append(selected, val), done |-> TRUE]

\* handleSelect(val) of the v3 EntityMultiSearchField
handleSelect_v3(selected, val, max) ==
    IF includes(selected, val)
    THEN [f |-> filterOut(selected, val), done |-> TRUE]
    ELSE IF max > 0 /\ Len(selected) >= max
         THEN [f |-> selected, done |-> FALSE]
         ELSE [f |-> Append(selected, val), done |-> TRUE]

\* (mutant) the value is passed on as it is stored
transform_Raw(v) ==
    IF isCreatedValue(v) THEN [op |-> "create", name |-> v]
    ELSE [op |-> "link", id |-> v]

\* z.string().transform(...) of the id-mode schema
transform(v) ==
    IF isCreatedValue(v) THEN [op |-> "create", name |-> parseCreatedName(v)]
    ELSE [op |-> "link", id |-> v]

-----------------------------------------------------------------------------
(* useResolvedLabels *)

\* longest list of ids the resolver is rendered with
MaxIds == 3

\* the ids a multi-value field may hold
ResolveIds == {c1, c2, NewX}

IdLists == UNION {[1..k -> ResolveIds] : k \in 0..MaxIds}

\* what the integrator's fetchFn(id) resolves with
FetchedLabel(id) == IF id = c1 THEN AcmeInc ELSE Beta

RECURSIVE filterReal(_)
\* ids.filter((id) => !isCreatedValue(id))
filterReal(list) ==
    IF list = <<>> THEN <<>>
    ELSE IF isCreatedValue(Head(list)) THEN filterReal(Tail(list))
    ELSE <<Head(list)>> \o filterReal(Tail(list))

\* the ids useQueries is given a query for: v4 leaves the sentinels out
queriedIds(version, list) == IF version = "v4" THEN filterReal(list) ELSE list

\* (mutant) a query is fetched although the cache holds its data
fetchIdQuery_IgnoreCache(fetches, cache, id) ==
    IF fetches[id] = 0
    THEN [fetches EXCEPT ![id] = fetches[id] + 1]
    ELSE fetches

\* a new observer of [entityKey, id] with staleTime Infinity: queryFn is called
\* when the query has no data and is not fetching already
fetchIdQuery(fetches, cache, id) ==
    IF id \notin DOMAIN cache /\ fetches[id] = 0
    THEN [fetches EXCEPT ![id] = fetches[id] + 1]
    ELSE fetches

RECURSIVE fetchEach(_, _, _, _)
\* useQueries subscribes the observers of the list one after the other; the
\* ids of `seen` have their observer already
fetchEach(fetches, cache, list, seen) ==
    IF list = <<>> THEN fetches
    ELSE fetchEach(IF Head(list) \in seen THEN fetches
                   ELSE fetchIdQuery(fetches, cache, Head(list)),
                   cache, Tail(list), seen)

\* queries[i] of useQueries for the id at position i of the queried ids
queryResult(fetches, cache, id) ==
    [hasData |-> id \in DOMAIN cache,
     label |-> IF id \in DOMAIN cache THEN cache[id].label ELSE id,
     isLoading |-> fetches[id] > 0 /\ id \notin DOMAIN cache]

\* v4: realIds.forEach((id, i) => queryLookup.set(id, queries[i]?.data?.label ?? id))
queryLookup(fetches, cache, realIds, id) ==
    LET at == {i \in 1..Len(realIds) : realIds[i] = id}
        last == CHOOSE i \in at : \A j \in at : j <= i
    IN queryResult(fetches, cache, realIds[last]).label

\* (mutant) one entry per distinct id
useResolvedLabels_Distinct(version, fetches, cache, list) ==
    LET keep == {i \in 1..Len(list) : \A j \in 1..(i - 1) : list[j] # list[i]}
        RECURSIVE pick(_)
        pick(i) == IF i > Len(list) THEN <<>>
                   ELSE IF i \in keep
                        THEN <<[id |-> list[i],
                                label |-> queryResult(fetches, cache, list[i]).label,
                                isLoading |-> FALSE]>> \o pick(i + 1)
                        ELSE pick(i + 1)
    IN pick(1)

\* the hook's return value: ids.map(...)
useResolvedLabels(version, fetches, cache, list) ==
    IF version = "v4"
    THEN [i \in 1..Len(list) |->
            [id |-> list[i],
             label |-> IF isCreatedValue(list[i]) THEN parseCreatedName(list[i])
                       ELSE queryLookup(fetches, cache, filterReal(list), list[i]),
             isLoading |-> FALSE]]
    ELSE [i \in 1..Len(list) |->
            [id |-> list[i],
             label |-> queryResult(fetches, cache, list[i]).label,
             isLoading |-> queryResult(fetches, cache, list[i]).isLoading]]

-----------------------------------------------------------------------------
(* The query cache *)

\* (mutant) a write replaces the cache
setQueryData_Alone(cache, key, value) == [k \in {key} |-> value]

\* (mutant) a key that holds data is not written again
setQueryData_KeepFirst(cache, key, value) ==
    [k \in (DOMAIN cache) \cup {key} |-> IF k \in DOMAIN cache THEN cache[k] ELSE value]

\* (mutant) writing what a key already holds removes the key
setQueryData_Toggle(cache, key, value) ==
    IF key \in DOMAIN cache /\ cache[key] = value
    THEN [k \in (DOMAIN cache) \ {key} |-> cache[k]]
    ELSE [k \in (DOMAIN cache) \cup {key} |-> IF k = key THEN value ELSE cache[k]]

setQueryData(cache, key, value) ==
    [k \in (DOMAIN cache) \cup {key} |-> IF k = key THEN value ELSE cache[k]]

\* entries.forEach((option) => setQueryData([entityKey, option.value], option))
RECURSIVE setEach(_, _)
setEach(cache, entries) ==
    IF entries = <<>> THEN cache
    ELSE setEach(setQueryData(cache, Head(entries).value, Head(entries)),
                 Tail(entries))

\* (mutant) the cache is read before the sentinel is decoded
getLabel_CacheFirst(cache, id) ==
    IF id = Null \/ id = <<>> THEN <<>>
    ELSE IF id \in DOMAIN cache THEN cache[id].label
    ELSE IF isCreatedValue(id) THEN parseCreatedName(id)
    ELSE id

\* (mutant) a miss yields the empty string
getLabel_EmptyOnMiss(cache, id) ==
    IF id = Null \/ id = <<>> THEN <<>>
    ELSE IF isCreatedValue(id) THEN parseCreatedName(id)
    ELSE IF id \in DOMAIN cache THEN cache[id].label
    ELSE <<>>

getLabel(cache, id) ==
    IF id = Null \/ id = <<>> THEN <<>>
    ELSE IF isCreatedValue(id) THEN parseCreatedName(id)
    ELSE IF id \in DOMAIN cache THEN cache[id].label
    ELSE id

NewQuery == [has |-> FALSE, data |-> <<>>, status |-> "pending",
             fetch |-> "idle", fail |-> 0, stale |-> FALSE,
             wait |-> FALSE, cancelled |-> FALSE]

\* (mutant) the gate lets a query one character short through
enabled_OneShort(q) == Len(q) >= minChars - 1

enabled(q) == Len(q) >= minChars

Observers(q) == {s \in Sessions : mounted[s] /\ debouncedSearch[s] = q}

\* (mutant) every observer that needs data starts a call of its own
fetchQuery_NoDedupe(qs, out, q) ==
    <<[qs EXCEPT ![q].fetch = "fetching", ![q].fail = 0, ![q].cancelled = FALSE,
                 ![q].status = IF qs[q].has THEN qs[q].status ELSE "pending"],
      [out EXCEPT ![q] = out[q] + 1]>>

\* Query.fetch: a query that is fetching is joined, not fetched again
fetchQuery(qs, out, q) ==
    IF qs[q].fetch # "idle"
    THEN <<[qs EXCEPT ![q].cancelled = FALSE], out>>
    ELSE <<[qs EXCEPT ![q].fetch = "fetching", ![q].fail = 0,
                      ![q].cancelled = FALSE,
                      ![q].status = IF qs[q].has THEN qs[q].status ELSE "pending"],
           [out EXCEPT ![q] = out[q] + 1]>>

\* (mutant) an enabled key is fetched whether or not its data is fresh
observe_AlwaysFetch(qs, out, q) ==
    IF enabled(q) THEN fetchQuery(qs, out, q) ELSE <<qs, out>>

\* the observer's key changed to q: fetch when enabled and without fresh data
observe(qs, out, q) ==
    IF enabled(q) /\ (~qs[q].has \/ qs[q].stale)
    THEN fetchQuery(qs, out, q)
    ELSE <<qs, out>>

\* Query.removeObserver: the last observer leaving cancels further retries
removeObserver(qs, q, left) ==
    IF left = {} /\ qs[q].fetch # "idle"
    THEN [qs EXCEPT ![q].cancelled = TRUE]
    ELSE qs

\* queryFn's result becomes the data of the query
onSuccess(qs, q, result) ==
    [qs EXCEPT ![q] = [has |-> TRUE, data |-> result, status |-> "success",
                       fetch |-> "idle", fail |-> 0, stale |-> FALSE,
                       wait |-> FALSE, cancelled |-> FALSE]]

\* (mutant) a failure drops the data the query held
onError_DropData(qs, q) ==
    IF qs[q].cancelled \/ qs[q].fail >= retry
    THEN [qs EXCEPT ![q].status = "error", ![q].fetch = "idle",
                    ![q].cancelled = FALSE, ![q].has = FALSE, ![q].data = <<>>]
    ELSE [qs EXCEPT ![q].fail = qs[q].fail + 1, ![q].wait = TRUE]

\* queryFn rejected: retry after a delay, or end in the error state
onError(qs, q) ==
    IF qs[q].cancelled \/ qs[q].fail >= retry
    THEN [qs EXCEPT ![q].status = "error", ![q].fetch = "idle",
                    ![q].cancelled = FALSE]
    ELSE [qs EXCEPT ![q].fail = qs[q].fail + 1, ![q].wait = TRUE]

\* the observer's result: the query's data, else placeholderData (prev) => prev
Data(s) ==
    LET q == debouncedSearch[s] IN
    IF query[q].has THEN [data |-> query[q].data, placeholder |-> FALSE]
    ELSE IF query[q].status = "pending" /\ lastKey[s] # NoKey
         THEN [data |-> query[lastKey[s]].data, placeholder |-> TRUE]
    ELSE [data |-> <<>>, placeholder |-> FALSE]

\* const { data: options = [], isLoading } = useQuery(...)
options(s) == Data(s).data

isLoading(s) ==
    LET q == debouncedSearch[s] IN
    /\ query[q].fetch = "fetching"
    /\ query[q].status = "pending"
    /\ ~Data(s).placeholder

\* QueryObserver.updateResult: remember the last query that had data
Remember(lk, qs, mt, ds) ==
    [s \in Sessions |-> IF mt[s] /\ qs[ds[s]].has THEN ds[s] ELSE lk[s]]

\* (mutant) a running timer is kept: a throttle, not a debounce
armTimer_KeepRunning(running) == IF running # Off THEN running ELSE TicksPerDelay

\* useDebouncedValue's effect on a change of value: cancel, then arm anew
armTimer(running) == TicksPerDelay

\* (mutant) the result is filed under the key the field shows now
resultKey_Current(q) ==
    IF \E s \in Sessions : mounted[s]
    THEN debouncedSearch[CHOOSE s \in Sessions : mounted[s]]
    ELSE q

\* the query a call of searchFn(q) belongs to: queryKey and queryFn close over
\* the same debouncedSearch
resultKey(q) == q

\* (mutant) the results are not made addressable by id
queryFnWrites_None(cache, mapped) == cache

\* mapped.forEach((option) => setQueryData([entityKey, option.value], option))
queryFnWrites(cache, mapped) == setEach(cache, mapped)

-----------------------------------------------------------------------------
(* useDraft over a TanStack form *)

\* most saveDraft calls in one run
MaxSaves == 2

FormFields == {"name", "bio"}

\* what the user may type into a field
NameInputs == {<<>>, <<"x">>, <<"x", "y">>}
BioInputs == {<<>>, <<"b">>}

\* defaultValues of the form: the empty defaults, or data of edit mode
DefaultValueSets == {[name |-> <<>>, bio |-> <<>>], [name |-> <<"x">>, bio |-> <<"b">>]}

\* the draftSchema option: none, profileDraftSchema (name.min(1)), a schema
\* that asks for both fields, and one with two checks on the name
DraftSchemas == {"none", "name", "both", "strict"}

NoValues == [name |-> Null, bio |-> Null]

DefaultMeta == [isDirty |-> FALSE, errors |-> <<>>]

Issue(f, m) == [path |-> f, message |-> m]

\* draftSchema.safeParse(raw): the issues, in the order Zod reports them
safeParse(schema, raw) ==
    CASE schema = "name" ->
            IF Len(raw.name) < 1
            THEN <<Issue("name", "Name required to save draft")>> ELSE <<>>
      [] schema = "both" ->
            (IF Len(raw.name) < 1 THEN <<Issue("name", "Name required")>> ELSE <<>>)
            \o (IF Len(raw.bio) < 1 THEN <<Issue("bio", "Bio required")>> ELSE <<>>)
      [] schema = "strict" ->
            (IF Len(raw.name) < 1 THEN <<Issue("name", "Name required")>> ELSE <<>>)
            \o (IF Len(raw.name) < 2 THEN <<Issue("name", "Name too short")>> ELSE <<>>)
      [] OTHER -> <<>>

\* form.setFieldMeta(fieldName, (prev) => ({ ...prev, errors: [message] }))
setFieldMeta(f, fieldName, message) ==
    [f EXCEPT !.fieldMeta[fieldName].errors = <<message>>]

\* (mutant) only the first issue is reported
setIssues_FirstOnly(f, issues) ==
    IF issues = <<>> THEN f
    ELSE setFieldMeta(f, Head(issues).path, Head(issues).message)

RECURSIVE setIssues(_, _)
\* result.error.issues.forEach((issue) => form.setFieldMeta(...))
setIssues(f, issues) ==
    IF issues = <<>> THEN f
    ELSE setIssues(setFieldMeta(f, Head(issues).path, Head(issues).message),
                   Tail(issues))

\* (mutant) the values become the baseline but the field meta is kept
reset_KeepMeta(f, values) ==
    [values |-> values, defaultValues |-> values, fieldMeta |-> f.fieldMeta]

\* form.reset(values): the values become the form's values and its default
\* values, and every field's meta is reset
reset(f, values) ==
    [values |-> values, defaultValues |-> values,
     fieldMeta |-> [x \in FormFields |-> DefaultMeta]]

\* form.reset() of the Discard button: back to the default values
discard(f) ==
    [values |-> f.defaultValues, defaultValues |-> f.defaultValues,
     fieldMeta |-> [x \in FormFields |-> DefaultMeta]]

\* field.handleChange(value): the field is dirty from now on
setFieldValue(f, fieldName, value) ==
    [f EXCEPT !.values[fieldName] = value, !.fieldMeta[fieldName].isDirty = TRUE]

\* form.state.isDirty
isDirty(f) == \E x \in FormFields : f.fieldMeta[x].isDirty

NewForm(defaults) ==
    [values |-> defaults, defaultValues |-> defaults,
     fieldMeta |-> [x \in FormFields |-> DefaultMeta]]

\* no form with a draft is rendered
InitDraftVars ==
    /\ form = NewForm([name |-> <<>>, bio |-> <<>>])
    /\ status = "idle"
    /\ lastSavedAt = 0
    /\ inflight = <<>>
    /\ draftSchema = "none"
    /\ resetAfterSave = TRUE
    /\ autoPending = FALSE
    /\ draftNote = [calls |-> 0, sent |-> 0, saved |-> NoValues]

-----------------------------------------------------------------------------

InitState ==
    /\ mounted = [s \in Sessions |-> FALSE]
    /\ search = [s \in Sessions |-> <<>>]
    /\ debouncedSearch = [s \in Sessions |-> <<>>]
    /\ timer = [s \in Sessions |-> Off]
    /\ elapsed = [s \in Sessions |-> TicksPerDelay]
    /\ lastKey = [s \in Sessions |-> NoKey]
    /\ race = [s \in Sessions |-> "none"]
    /\ skipped = [s \in Sessions |-> FALSE]
    /\ query = [q \in Texts |-> NewQuery]
    /\ outstanding = [q \in Texts |-> 0]
    /\ answer = [q \in Texts |-> {}]
    /\ entityCache = << >>
    /\ labelArg = NoCall
    /\ labelOut = <<>>

\* no codec call yet
InitCodecVars ==
    /\ codecArg = NoCall
    /\ codecOut = [op |-> "none", value |-> NoCall, name |-> NoCall, created |-> FALSE]

\* a field that was just rendered: nothing typed, nothing stored
InitFieldState ==
    /\ hook = [search |-> <<>>, options |-> <<>>, isLoading |-> FALSE]
    /\ fieldValue = Null
    /\ selectedValues = <<>>
    /\ delivered = [op |-> "none"]

\* useResolvedLabels is not rendered
InitResolveVars ==
    /\ ids = NoIds
    /\ idFetch = [id \in ResolveIds |-> 0]

\* no codec call, no field and no label resolver
InitExt ==
    /\ InitCodecVars
    /\ component = "v4" /\ storeMode = "name" /\ creatable = TRUE /\ maxValues = 0
    /\ InitFieldState
    /\ InitResolveVars
    /\ seedNote = [last |-> <<>>, times |-> 0]
    /\ InitDraftVars

\* one search field, any minChars, a client with or without retries
Init ==
    /\ InitState /\ InitExt
    /\ live = {"s1"}
    /\ minChars \in {1, 2}
    /\ retry \in {0, DefaultRetry}

Mount(s) ==
    /\ s \in live
    /\ ~mounted[s]
    /\ mounted' = [mounted EXCEPT ![s] = TRUE]
    /\ UNCHANGED <<search, debouncedSearch, timer, elapsed, lastKey, race, skipped,
                   query, outstanding, answer, entityCache, configVars, labelVars,
                   extVars>>

\* the hook instance goes away: its state is dropped, its timer is cancelled
\* and its observer leaves the query; nothing aborts a pending searchFn call
Unmount(s) ==
    /\ mounted[s]
    /\ mounted' = [mounted EXCEPT ![s] = FALSE]
    /\ search' = [search EXCEPT ![s] = <<>>]
    /\ debouncedSearch' = [debouncedSearch EXCEPT ![s] = <<>>]
    /\ timer' = [timer EXCEPT ![s] = Off]
    /\ elapsed' = [elapsed EXCEPT ![s] = TicksPerDelay]
    /\ lastKey' = [lastKey EXCEPT ![s] = NoKey]
    /\ race' = [race EXCEPT ![s] = "none"]
    /\ skipped' = [skipped EXCEPT ![s] = FALSE]
    /\ query' = removeObserver(query, debouncedSearch[s],
                               Observers(debouncedSearch[s]) \ {s})
    /\ UNCHANGED <<outstanding, answer, entityCache, configVars, labelVars,
                   extVars>>

\* setSearch(text); clearSearch() is setSearch("")
SetSearch(s, text) ==
    /\ mounted[s]
    /\ text # search[s]
    /\ search' = [search EXCEPT ![s] = text]
    /\ timer' = [timer EXCEPT ![s] = armTimer(timer[s])]
    /\ elapsed' = [elapsed EXCEPT ![s] = 0]
    /\ skipped' = [skipped EXCEPT ![s] = timer[s] # Off]
    /\ UNCHANGED <<mounted, debouncedSearch, lastKey, race, query, outstanding,
                   answer, entityCache, configVars, labelVars,
                   extVars>>

Tick ==
    /\ \E s \in Sessions : timer[s] > 0
    /\ timer' = [s \in Sessions |-> IF timer[s] > 0 THEN timer[s] - 1 ELSE timer[s]]
    /\ elapsed' = [s \in Sessions |->
                     IF elapsed[s] < TicksPerDelay THEN elapsed[s] + 1 ELSE elapsed[s]]
    /\ UNCHANGED <<mounted, search, debouncedSearch, lastKey, race, skipped, query,
                   outstanding, answer, entityCache, configVars, labelVars,
                   extVars>>

\* the debounce timer fires: the debounced value becomes the typed value and
\* useQuery re-renders with the key [entityKey, "search", debouncedSearch]
Settle(s) ==
    /\ mounted[s]
    /\ timer[s] = 0
    /\ timer' = [timer EXCEPT ![s] = Off]
    /\ LET old == debouncedSearch[s]
           new == search[s]
           ds == [debouncedSearch EXCEPT ![s] = new]
       IN /\ debouncedSearch' = ds
          /\ IF new = old
             THEN UNCHANGED <<query, outstanding, lastKey, race>>
             ELSE LET f == observe(removeObserver(query, old, Observers(old) \ {s}),
                                   outstanding, new)
                  IN /\ query' = f[1]
                     /\ outstanding' = f[2]
                     /\ lastKey' = Remember(lastKey, f[1], mounted, ds)
                     /\ race' = [race EXCEPT ![s] =
                                   IF outstanding[old] > 0 /\ enabled(new)
                                   THEN "pending" ELSE "none"]
    /\ UNCHANGED <<mounted, search, elapsed, skipped, answer, entityCache,
                   configVars, labelVars,
                   extVars>>

\* searchFn(q) resolves with result: queryFn maps, seeds each option under
\* [entityKey, option.value] and returns the list, which becomes the query data
SearchResolve(q, result) ==
    /\ outstanding[q] > 0
    /\ outstanding' = [outstanding EXCEPT ![q] = outstanding[q] - 1]
    /\ entityCache' = queryFnWrites(entityCache, result)
    /\ query' = onSuccess(query, resultKey(q), result)
    /\ answer' = [answer EXCEPT ![q] = {result}]
    /\ lastKey' = Remember(lastKey, query', mounted, debouncedSearch)
    /\ race' = [s \in Sessions |->
                  IF race[s] = "pending" /\ debouncedSearch[s] # q
                  THEN "resolved" ELSE race[s]]
    /\ UNCHANGED <<mounted, search, debouncedSearch, timer, elapsed, skipped,
                   configVars, labelVars,
                   extVars>>

\* searchFn(q) rejects
SearchReject(q) ==
    /\ outstanding[q] > 0
    /\ outstanding' = [outstanding EXCEPT ![q] = outstanding[q] - 1]
    /\ query' = onError(query, q)
    /\ UNCHANGED <<sessionVars, answer, entityCache, configVars, labelVars,
                   extVars>>

\* the retry delay is over: searchFn is called again unless retries were cancelled
RetryFire(q) ==
    /\ query[q].wait
    /\ IF query[q].cancelled
       THEN /\ query' = [query EXCEPT ![q].wait = FALSE, ![q].status = "error",
                                      ![q].fetch = "idle", ![q].cancelled = FALSE]
            /\ UNCHANGED outstanding
       ELSE /\ query' = [query EXCEPT ![q].wait = FALSE]
            /\ outstanding' = [outstanding EXCEPT ![q] = outstanding[q] + 1]
    /\ UNCHANGED <<sessionVars, answer, entityCache, configVars, labelVars,
                   extVars>>

\* staleTime has passed since the data of q was written
Expire(q) ==
    /\ query[q].has
    /\ ~query[q].stale
    /\ query' = [query EXCEPT ![q].stale = TRUE]
    /\ UNCHANGED <<sessionVars, outstanding, answer, entityCache, configVars,
                   labelVars, extVars>>

Seed(s, entries) ==
    /\ mounted[s]
    /\ entityCache' = setEach(entityCache, entries)
    /\ UNCHANGED <<sessionVars, query, outstanding, answer, configVars, labelVars,
                   extVars>>

\* seed(entries), with a note of the argument and of whether the call before
\* it had the same one
SeedNoted(s, entries) ==
    /\ mounted[s]
    /\ entityCache' = setEach(entityCache, entries)
    /\ seedNote' = [last |-> entries, times |-> IF seedNote.last = entries THEN 2 ELSE 1]
    /\ UNCHANGED <<sessionVars, query, outstanding, answer, configVars, labelVars,
                   codecVars, fieldVars, resolveVars, draftVars>>

GetLabel(s, id) ==
    /\ mounted[s]
    /\ labelArg' = id
    /\ labelOut' = getLabel(entityCache, id)
    /\ UNCHANGED <<sessionVars, query, outstanding, answer, entityCache, configVars,
                   extVars>>

Next ==
    \/ \E s \in Sessions : Mount(s)
    \/ \E s \in Sessions : Unmount(s)
    \/ \E s \in Sessions, t \in Texts : SetSearch(s, t)
    \/ Tick
    \/ \E s \in Sessions : Settle(s)
    \/ \E q \in Texts, r \in ResultLists : SearchResolve(q, r)
    \/ \E q \in Texts : SearchReject(q)
    \/ \E q \in Texts : RetryFire(q)
    \/ \E q \in Texts : Expire(q)
    \/ \E s \in Sessions, e \in SeedLists : Seed(s, e)

Spec == Init /\ [][Next]_vars

\* two search fields of one namespace (one hook configuration) over one cache
InitShared ==
    /\ InitState /\ InitExt
    /\ live = Sessions
    /\ minChars = 2
    /\ retry \in {0, DefaultRetry}

SpecShared == InitShared /\ [][Next]_vars

\* one search field whose getLabel and seed are called with any input
InitLabel ==
    /\ InitState /\ InitExt
    /\ live = {"s1"}
    /\ minChars = 2
    /\ retry \in {0, DefaultRetry}

NextLabel ==
    \/ Next
    \/ \E s \in Sessions, e \in LabelSeedLists : Seed(s, e)
    \/ \E s \in Sessions, id \in LabelArgs : GetLabel(s, id)

SpecLabel == InitLabel /\ [][NextLabel]_vars

\* two search fields over one cache that is seeded with any of the lists; a
\* client without retries, and a staleTime that does not pass
InitCache ==
    /\ InitState
    /\ live = Sessions /\ minChars = 2 /\ retry = 0
    /\ InitExt

NextCache ==
    \/ \E s \in Sessions : Mount(s)
    \/ \E s \in Sessions : Unmount(s)
    \/ \E s \in Sessions, t \in Texts : SetSearch(s, t)
    \/ Tick
    \/ \E s \in Sessions : Settle(s)
    \/ \E q \in Texts, r \in ResultLists : SearchResolve(q, r)
    \/ \E q \in Texts : SearchReject(q)
    \/ \E s \in Sessions, e \in CacheSeedLists : Seed(s, e)

SpecCache == InitCache /\ [][NextCache]_vars

\* one search field with minChars 1 over the same cache, its seeds noted
InitSeed ==
    /\ InitState
    /\ live = {"s1"} /\ minChars = 1 /\ retry = 0
    /\ InitExt

NextSeed ==
    \/ \E s \in Sessions : Mount(s)
    \/ \E s \in Sessions : Unmount(s)
    \/ \E s \in Sessions, t \in Texts : SetSearch(s, t)
    \/ Tick
    \/ \E s \in Sessions : Settle(s)
    \/ \E q \in Texts, r \in ResultLists : SearchResolve(q, r)
    \/ \E q \in Texts : SearchReject(q)
    \/ \E s \in Sessions, e \in CacheSeedLists : SeedNoted(s, e)

SpecSeed == InitSeed /\ [][NextSeed]_vars

-----------------------------------------------------------------------------
(* The codec on its own *)

\* makeCreatedValue(name), then what the other two functions make of it
MakeCreated(name) ==
    /\ codecArg' = name
    /\ codecOut' = [op |-> "make",
                    value |-> makeCreatedValue(name),
                    name |-> parseCreatedName(makeCreatedValue(name)),
                    created |-> isCreatedValue(makeCreatedValue(name))]
    /\ UNCHANGED <<hookVars, entityCache, fieldVars, resolveVars, seedNote,
                   draftVars>>

\* isCreatedValue(id) for any field value
IsCreated(id) ==
    /\ codecArg' = id
    /\ codecOut' = [op |-> "test", value |-> id, name |-> NoCall,
                    created |-> isCreatedValue(id)]
    /\ UNCHANGED <<hookVars, entityCache, fieldVars, resolveVars, seedNote,
                   draftVars>>

InitCodec ==
    /\ InitState /\ InitExt
    /\ live = {}
    /\ minChars = 1
    /\ retry = 0

NextCodec ==
    \/ \E name \in CodecNames : MakeCreated(name)
    \/ \E id \in CodecIds : IsCreated(id)

SpecCodec == InitCodec /\ [][NextCodec]_vars

-----------------------------------------------------------------------------
(* The creatable fields on their own: the searchHook prop is an input *)

\* whether the create option is among the rendered options
createShown ==
    CASE component = "v4" -> showCreate(hook.search, hook.isLoading, hook.options)
      [] component = "v4multi" ->
            showCreateMulti(storeMode, selectedValues, hook.search, hook.isLoading,
                            hook.options)
      [] component \in {"multi", "v3multi"} -> FALSE
      [] OTHER -> /\ Len(hook.options) = 0
                  /\ showCreate_v3(creatable, hook.search, hook.isLoading, hook.options)

\* the search box's onChange: setSearch(text)
TypeSearch(text) ==
    /\ text # hook.search
    /\ hook' = [hook EXCEPT !.search = text]
    /\ UNCHANGED <<hookVars, entityCache, codecVars, component, storeMode, creatable,
                   maxValues, fieldValue, selectedValues, delivered, resolveVars,
                   seedNote,
                   draftVars>>

\* the hook re-renders the field with other options or another isLoading
HookUpdate(opts, loading) ==
    /\ <<opts, loading>> # <<hook.options, hook.isLoading>>
    /\ hook' = [hook EXCEPT !.options = opts, !.isLoading = loading]
    /\ UNCHANGED <<hookVars, entityCache, codecVars, component, storeMode, creatable,
                   maxValues, fieldValue, selectedValues, delivered, resolveVars,
                   seedNote,
                   draftVars>>

\* onOptionSubmit(val) of the rendered component; closing the dropdown (single
\* fields) and setSearch("") (multi field) empty the search box
OptionSubmit(val) ==
    /\ CASE component = "v4" ->
              /\ fieldValue' = handleSubmit(storeMode, hook.search, val)
              /\ hook' = [hook EXCEPT !.search = <<>>]
              /\ UNCHANGED selectedValues
         [] component = "v3" ->
              /\ fieldValue' = onOptionSubmit_v3(hook.search, val)
              /\ hook' = [hook EXCEPT !.search = <<>>]
              /\ UNCHANGED selectedValues
         [] component \in {"multi", "v3multi"} ->
              LET r == IF component = "multi"
                       THEN handleSelect(selectedValues, val, maxValues)
                       ELSE handleSelect_v3(selectedValues, val, maxValues)
              IN /\ Len(r.f) <= MaxSelected
                 /\ selectedValues' = r.f
                 /\ hook' = IF r.done THEN [hook EXCEPT !.search = <<>>] ELSE hook
                 /\ UNCHANGED fieldValue
         [] OTHER ->
              LET r == handleSubmitMulti(selectedValues,
                                         handleSubmit(storeMode, hook.search, val),
                                         maxValues)
              IN /\ Len(r.f) <= MaxSelected
                 /\ selectedValues' = r.f
                 /\ hook' = IF r.done THEN [hook EXCEPT !.search = <<>>] ELSE hook
                 /\ UNCHANGED fieldValue
    /\ UNCHANGED <<hookVars, entityCache, codecVars, component, storeMode, creatable,
                   maxValues, delivered, resolveVars, seedNote,
                   draftVars>>

\* the user picks the i-th rendered option
PickOption(i) ==
    /\ i \in 1..Len(hook.options)
    /\ OptionSubmit(CASE component = "v3" -> hook.options[i].label
                       [] component \in {"multi", "v3multi"} -> hook.options[i].value
                       [] OTHER -> optionValue(storeMode, hook.options[i]))

\* the user picks the create option
ClickCreate ==
    /\ createShown
    /\ OptionSubmit(IF component = "v3" THEN CREATE_V3 ELSE CREATE_SENTINEL)

\* the single field's CloseButton: field.handleChange(null)
ClearValue ==
    /\ component \in {"v3", "v4"}
    /\ ~hook.isLoading
    /\ fieldValue # Null /\ fieldValue # <<>>
    /\ fieldValue' = Null
    /\ UNCHANGED <<hookVars, entityCache, codecVars, component, storeMode, creatable,
                   maxValues, hook, selectedValues, delivered, resolveVars, seedNote,
                   draftVars>>

\* handleRemove(val) from the i-th pill
RemovePill(i) ==
    /\ component \in {"v4multi", "multi", "v3multi"}
    /\ i \in 1..Len(selectedValues)
    /\ selectedValues' = filterOut(selectedValues, selectedValues[i])
    /\ UNCHANGED <<hookVars, entityCache, codecVars, component, storeMode, creatable,
                   maxValues, hook, fieldValue, delivered, resolveVars, seedNote,
                   draftVars>>

\* Backspace in the empty search box removes the last pill
Backspace ==
    /\ component \in {"v4multi", "multi", "v3multi"}
    /\ hook.search = <<>>
    /\ Len(selectedValues) > 0
    /\ selectedValues' = filterOut(selectedValues, selectedValues[Len(selectedValues)])
    /\ UNCHANGED <<hookVars, entityCache, codecVars, component, storeMode, creatable,
                   maxValues, hook, fieldValue, delivered, resolveVars, seedNote,
                   draftVars>>

\* the form is submitted: the id-mode schema parses the field value
\* (z.string() rejects null, and then nothing is handed on)
FormSubmit ==
    /\ component = "v4" /\ storeMode = "id"
    /\ fieldValue # Null
    /\ delivered' = transform(fieldValue)
    /\ UNCHANGED <<hookVars, entityCache, codecVars, component, storeMode, creatable,
                   maxValues, hook, fieldValue, selectedValues, resolveVars, seedNote,
                   draftVars>>

InitField ==
    /\ InitState
    /\ live = {} /\ minChars = 1 /\ retry = 0
    /\ InitCodecVars /\ InitResolveVars /\ seedNote = [last |-> <<>>, times |-> 0]
    /\ InitDraftVars
    /\ InitFieldState
    /\ \/ /\ component = "v3" /\ storeMode = "name"
          /\ creatable \in BOOLEAN /\ maxValues = 0
       \/ /\ component = "v4" /\ storeMode \in {"name", "id"}
          /\ creatable = TRUE /\ maxValues = 0
       \/ /\ component = "v4multi" /\ storeMode \in {"name", "id"}
          /\ creatable = TRUE /\ maxValues \in {0, MaxSelected - 1}

NextField ==
    \/ \E text \in FieldTexts : TypeSearch(text)
    \/ \E opts \in FieldOptionLists, loading \in BOOLEAN : HookUpdate(opts, loading)
    \/ \E i \in 1..2 : PickOption(i)
    \/ ClickCreate
    \/ ClearValue
    \/ \E i \in 1..MaxSelected : RemovePill(i)
    \/ Backspace
    \/ FormSubmit

SpecField == InitField /\ [][NextField]_vars

-----------------------------------------------------------------------------
(* The multi-value fields on their own *)

\* the values field.state.value may hold when the field is first rendered
NameValues == {AcmeCorp, <<"a", "c">>, Beta}
IdValues == {c1, c2, makeCreatedValue(<<"a", "c">>)}

\* no two positions hold the same created name, compared case-insensitively:
\* two names (name mode) or two "__new:" sentinels (id mode)
NoDuplicateNames(mode, selected) ==
    \A i, j \in 1..Len(selected) :
        i # j =>
            IF mode = "name"
            THEN toLowerCase(selected[i]) # toLowerCase(selected[j])
            ELSE ~ /\ isCreatedValue(selected[i])
                   /\ isCreatedValue(selected[j])
                   /\ toLowerCase(parseCreatedName(selected[i]))
                        = toLowerCase(parseCreatedName(selected[j]))

\* a multi-value field rendered over a form value: the creatable field in
\* either mode, or a plain field (v4 or v3), with or without a cap; the form
\* value respects the cap and names no created value twice
InitMulti ==
    /\ InitState
    /\ live = {} /\ minChars = 1 /\ retry = 0
    /\ InitCodecVars /\ InitResolveVars /\ seedNote = [last |-> <<>>, times |-> 0]
    /\ InitDraftVars
    /\ hook = [search |-> <<>>, options |-> <<>>, isLoading |-> FALSE]
    /\ fieldValue = Null
    /\ delivered = [op |-> "none"]
    /\ creatable = TRUE
    /\ maxValues \in 0..(MaxSelected - 1)
    /\ \/ /\ component = "v4multi" /\ storeMode = "name"
          /\ selectedValues \in SeqsUpTo(NameValues, MaxSelected)
       \/ /\ component = "v4multi" /\ storeMode = "id"
          /\ selectedValues \in SeqsUpTo(IdValues, MaxSelected)
       \/ /\ component \in {"multi", "v3multi"} /\ storeMode = "id"
          /\ selectedValues \in SeqsUpTo({c1, c2}, MaxSelected)
    /\ maxValues > 0 => Len(selectedValues) <= maxValues
    /\ NoDuplicateNames(storeMode, selectedValues)

NextMulti ==
    \/ \E text \in FieldTexts : TypeSearch(text)
    \/ \E opts \in FieldOptionLists, loading \in BOOLEAN : HookUpdate(opts, loading)
    \/ \E i \in 1..2 : PickOption(i)
    \/ ClickCreate
    \/ \E i \in 1..MaxSelected : RemovePill(i)
    \/ Backspace

SpecMulti == InitMulti /\ [][NextMulti]_vars

-----------------------------------------------------------------------------
(* useResolvedLabels over the shared cache *)

\* the labels the component renders now
resolved == useResolvedLabels(component, idFetch, entityCache, ids)

\* the hook is rendered with the ids of list: first render, or a re-render
\* after the selection changed
Resolve(list) ==
    /\ list # ids
    /\ ids' = list
    /\ idFetch' = fetchEach(idFetch, entityCache, queriedIds(component, list),
                            IF ids = NoIds THEN {}
                            ELSE {ids[i] : i \in 1..Len(ids)})
    /\ UNCHANGED <<hookVars, entityCache, codecVars, fieldVars, seedNote,
                   draftVars>>

\* the component goes away; a pending queryFn is not aborted
Unrender ==
    /\ ids # NoIds
    /\ ids' = NoIds
    /\ UNCHANGED <<hookVars, entityCache, codecVars, fieldVars, idFetch, seedNote,
                   draftVars>>

\* queryFn of [entityKey, id] resolves and its result becomes the query's data:
\* v4's queryFn returns {value: id, label: id}; v3's is fetchFn(id), or the
\* same placeholder when no fetchFn is given
FetchResolve(id, label) ==
    /\ idFetch[id] > 0
    /\ label \in (IF component = "v4" THEN {id} ELSE {id, FetchedLabel(id)})
    /\ idFetch' = [idFetch EXCEPT ![id] = idFetch[id] - 1]
    /\ entityCache' = setQueryData(entityCache, id, Opt(id, label))
    /\ UNCHANGED <<hookVars, codecVars, fieldVars, ids, seedNote,
                   draftVars>>

\* v3's fetchFn(id) rejects for good
FetchReject(id) ==
    /\ component = "v3"
    /\ idFetch[id] > 0
    /\ idFetch' = [idFetch EXCEPT ![id] = idFetch[id] - 1]
    /\ UNCHANGED <<hookVars, entityCache, codecVars, fieldVars, ids, seedNote,
                   draftVars>>

InitResolve ==
    /\ InitState
    /\ live = {"s1"} /\ minChars = 2 /\ retry = 0
    /\ InitCodecVars /\ InitFieldState /\ InitResolveVars
    /\ seedNote = [last |-> <<>>, times |-> 0]
    /\ InitDraftVars
    /\ component \in {"v3", "v4"}
    /\ storeMode = "id" /\ creatable = TRUE /\ maxValues = 0

NextResolve ==
    \/ \E s \in Sessions : Mount(s)
    \/ \E s \in Sessions : Unmount(s)
    \/ \E s \in Sessions, e \in SeedLists : Seed(s, e)
    \/ \E list \in IdLists : Resolve(list)
    \/ Unrender
    \/ \E id \in ResolveIds, label \in ResolveIds \cup {AcmeInc, Beta} :
          FetchResolve(id, label)
    \/ \E id \in ResolveIds : FetchReject(id)

SpecResolve == InitResolve /\ [][NextResolve]_vars

-----------------------------------------------------------------------------
(* The lifetime of the entries addressed by id *)

\* setQueryData([entityKey, id], option) is called without options, so the
\* query it creates has the client's gcTime (library default 5 minutes; the
\* hook sets none): once gcTime has passed and the query has no observer (no
\* useResolvedLabels rendered with the id) and is not fetching, the cache
\* removes it
Collect(id) ==
    /\ id \in DOMAIN entityCache
    /\ ids = NoIds \/ ~includes(queriedIds(component, ids), id)
    /\ id \in ResolveIds => idFetch[id] = 0
    /\ entityCache' = [k \in (DOMAIN entityCache) \ {id} |-> entityCache[k]]
    /\ UNCHANGED <<sessionVars, query, outstanding, answer, configVars, labelVars,
                   extVars>>

\* one search field with minChars 1, seeded with any of the lists and asked
\* for labels, over a cache whose gcTime may pass
NextGc ==
    \/ NextCache
    \/ \E s \in Sessions : GetLabel(s, c1)
    \/ \E id \in {c1, c2, c3} : Collect(id)

SpecGc == InitSeed /\ [][NextGc]_vars

-----------------------------------------------------------------------------
(* useDraft: the form, its draft and the auto-save listener *)

\* the user changes a field; the form's onChange listener is debounced
\* (onChangeDebounceMs), so it runs some time after the last change
Change(fieldName, value) ==
    /\ value # form.values[fieldName]
    /\ form' = setFieldValue(form, fieldName, value)
    /\ autoPending' = TRUE
    /\ UNCHANGED <<hookVars, entityCache, codecVars, fieldVars, resolveVars, seedNote,
                   status, lastSavedAt, inflight, draftSchema, resetAfterSave,
                   draftNote>>

\* the Discard button, rendered while the form is dirty: form.reset()
Discard ==
    /\ isDirty(form)
    /\ form' = discard(form)
    /\ UNCHANGED <<hookVars, entityCache, codecVars, fieldVars, resolveVars, seedNote,
                   status, lastSavedAt, inflight, draftSchema, resetAfterSave,
                   autoPending, draftNote>>

\* saveDraft() up to its await: the values are read, checked against the
\* draftSchema if there is one, and handed to onSaveDraft
saveDraft ==
    /\ draftNote.calls < MaxSaves
    /\ LET raw == form.values
           issues == safeParse(draftSchema, raw)
       IN IF draftSchema # "none" /\ issues # <<>>
          THEN /\ form' = setIssues(form, issues)
               /\ status' = "error"
               /\ draftNote' = [draftNote EXCEPT !.calls = @ + 1]
               /\ UNCHANGED <<inflight, lastSavedAt>>
          ELSE /\ status' = "saving"
               /\ inflight' = Append(inflight, raw)
               /\ draftNote' = [draftNote EXCEPT !.calls = @ + 1, !.sent = @ + 1]
               /\ UNCHANGED <<form, lastSavedAt>>
    /\ UNCHANGED <<hookVars, entityCache, codecVars, fieldVars, resolveVars, seedNote,
                   draftSchema, resetAfterSave>>

\* the Save Draft button; it is disabled (loading) while status is "saving"
ClickSave ==
    /\ status # "saving"
    /\ saveDraft
    /\ UNCHANGED autoPending

\* the debounced onChange listener runs: if (formApi.state.isDirty) saveDraft()
AutoSave ==
    /\ autoPending
    /\ autoPending' = FALSE
    /\ IF isDirty(form)
       THEN saveDraft
       ELSE UNCHANGED <<hookVars, entityCache, codecVars, fieldVars, resolveVars,
                        seedNote, form, status, lastSavedAt, inflight, draftSchema,
                        resetAfterSave, draftNote>>

\* the i-th pending onSaveDraft(raw) resolves: saveDraft goes on after its await
SaveResolve(i) ==
    /\ i \in 1..Len(inflight)
    /\ inflight' = SubSeq(inflight, 1, i - 1) \o SubSeq(inflight, i + 1, Len(inflight))
    /\ lastSavedAt' = lastSavedAt + 1
    /\ status' = "saved"
    /\ form' = IF resetAfterSave THEN reset(form, inflight[i]) ELSE form
    /\ draftNote' = [draftNote EXCEPT !.saved = inflight[i]]
    /\ UNCHANGED <<hookVars, entityCache, codecVars, fieldVars, resolveVars, seedNote,
                   draftSchema, resetAfterSave, autoPending>>

\* the i-th pending onSaveDraft(raw) rejects: the catch branch
SaveReject(i) ==
    /\ i \in 1..Len(inflight)
    /\ inflight' = SubSeq(inflight, 1, i - 1) \o SubSeq(inflight, i + 1, Len(inflight))
    /\ status' = "error"
    /\ UNCHANGED <<hookVars, entityCache, codecVars, fieldVars, resolveVars, seedNote,
                   form, lastSavedAt, draftSchema, resetAfterSave, autoPending,
                   draftNote>>

\* a form over its default values, with any draftSchema and resetAfterSave
InitDraft ==
    /\ InitState
    /\ live = {} /\ minChars = 1 /\ retry = 0
    /\ InitCodecVars /\ InitResolveVars
    /\ component = "v4" /\ storeMode = "name" /\ creatable = TRUE /\ maxValues = 0
    /\ InitFieldState
    /\ seedNote = [last |-> <<>>, times |-> 0]
    /\ \E d \in DefaultValueSets : form = NewForm(d)
    /\ status = "idle"
    /\ lastSavedAt = 0
    /\ inflight = <<>>
    /\ draftSchema \in DraftSchemas
    /\ resetAfterSave \in BOOLEAN
    /\ autoPending = FALSE
    /\ draftNote = [calls |-> 0, sent |-> 0, saved |-> NoValues]

NextDraft ==
    \/ \E v \in NameInputs : Change("name", v)
    \/ \E v \in BioInputs : Change("bio", v)
    \/ Discard
    \/ ClickSave
    \/ AutoSave
    \/ \E i \in 1..MaxSaves : SaveResolve(i)
    \/ \E i \in 1..MaxSaves : SaveReject(i)

SpecDraft == InitDraft /\ [][NextDraft]_vars

-----------------------------------------------------------------------------
(* Claims *)

AllSettled == \A q \in Texts : outstanding[q] = 0 /\ ~query[q].wait

\* C1: once the calls have resolved, a session whose settled query is q2 exposes
\* what searchFn(q2) resolved with, whatever a superseded call for q1 resolved
\* with and whenever it did.
C1_LaterQueryWins ==
    \A s \in Sessions :
        LET q2 == debouncedSearch[s] IN
        (mounted[s] /\ enabled(q2) /\ AllSettled /\ answer[q2] # {})
            => options(s) \in answer[q2]

\* a superseded call of s1 has resolved, with another result than the current one
C1_Witness ==
    /\ mounted["s1"] /\ race["s1"] = "resolved" /\ AllSettled
    /\ enabled(debouncedSearch["s1"])
    /\ answer[debouncedSearch["s1"]] # {}
    /\ options("s1") \in answer[debouncedSearch["s1"]]
    /\ \E q1 \in Texts : /\ q1 # debouncedSearch["s1"]
                         /\ answer[q1] # {}
                         /\ answer[q1] # answer[debouncedSearch["s1"]]

\* C2: a search that succeeds with R leaves R under the search key and every
\* entity of R under its id, getLabel of such an id is the entity's label, and
\* getLabel calls nothing.
C2_SearchFillsCache ==
    [][ /\ \A q \in Texts, r \in ResultLists :
             SearchResolve(q, r) =>
                /\ query'[q].has /\ query'[q].data = r
                /\ \A i \in 1..Len(r) :
                      /\ r[i].value \in DOMAIN entityCache'
                      /\ entityCache'[r[i].value] = r[i]
                      /\ getLabel(entityCache', r[i].value) = r[i].label
        /\ \A s \in Sessions, id \in LabelArgs :
             GetLabel(s, id) => outstanding' = outstanding /\ query' = query
      ]_vars

C2_Witness ==
    /\ query[<<"a", "b">>].has
    /\ query[<<"a", "b">>].data = <<Opt(c1, AcmeInc), Opt(c2, Beta)>>
    /\ c2 \in DOMAIN entityCache /\ entityCache[c2] = Opt(c2, Beta)
    /\ labelArg = c2 /\ labelOut = Beta
    /\ AllSettled

\* C3: a rejection adds, changes and removes nothing in the cache, and when
\* no retry follows it the sessions on that query are not loading.
C3_FailureLeavesCache ==
    [][ \A q \in Texts :
          SearchReject(q) =>
            /\ entityCache' = entityCache
            /\ \A k \in Texts : /\ query'[k].has = query[k].has
                                /\ query'[k].data = query[k].data
            /\ (query[q].cancelled \/ query[q].fail >= retry)
                  => \A s \in Sessions :
                        (mounted'[s] /\ debouncedSearch'[s] = q) => ~isLoading(s)'
      ]_vars

\* a refetch has failed for good: the earlier results are still there
C3_Witness ==
    \E q \in Texts :
        /\ mounted["s1"] /\ debouncedSearch["s1"] = q
        /\ query[q].status = "error" /\ query[q].fetch = "idle"
        /\ query[q].has /\ query[q].data # <<>>
        /\ c2 \in DOMAIN entityCache
        /\ ~isLoading("s1")

\* C4 (as claimed): with no session mounted, a call that resolves writes no
\* entity entry and no search-result entry.
C4_NoWriteAfterUnmount ==
    [][ (\A s \in Sessions : ~mounted[s]) =>
            /\ entityCache' = entityCache
            /\ \A q \in Texts : /\ query'[q].has = query[q].has
                                /\ query'[q].data = query[q].data
      ]_vars

\* C5 (as claimed): when the typed text drops below minChars, the settled
\* query and the options are cleared in the same step.
C5_ClearedImmediately ==
    [][ \A s \in Sessions :
          ( /\ mounted[s] /\ mounted'[s]
            /\ search'[s] # search[s]
            /\ Len(search[s]) >= minChars
            /\ Len(search'[s]) < minChars )
          => /\ Len(debouncedSearch'[s]) < minChars
             /\ options(s)' = <<>>
      ]_vars

\* C6: the settled text only ever becomes the text typed last, no earlier than
\* the delay after the last change, and searchFn is first called for a text
\* only when that text settles so.
C6_DebounceCollapse ==
    [][ /\ \A s \in Sessions :
             (mounted'[s] /\ debouncedSearch'[s] # debouncedSearch[s]) =>
                /\ debouncedSearch'[s] = search[s]
                /\ elapsed[s] >= TicksPerDelay
                /\ timer'[s] = Off
        /\ \A q \in Texts :
             (outstanding'[q] > outstanding[q] /\ ~query[q].wait) =>
                \E s \in Sessions :
                   /\ mounted[s] /\ search[s] = q
                   /\ debouncedSearch[s] # q /\ debouncedSearch'[s] = q
                   /\ elapsed[s] >= TicksPerDelay
      ]_vars

\* "a" then "ab" were typed within the delay: "ab" settled, "a" was never
\* settled nor searched
C6_Witness ==
    /\ minChars = 1
    /\ mounted["s1"] /\ skipped["s1"]
    /\ search["s1"] = <<"a", "b">> /\ debouncedSearch["s1"] = <<"a", "b">>
    /\ timer["s1"] = Off
    /\ outstanding[<<"a", "b">>] = 1
    /\ query[<<"a">>] = NewQuery /\ outstanding[<<"a">>] = 0 /\ answer[<<"a">>] = {}

\* C7: at most one searchFn call per search key is pending, and the sessions
\* on one key expose the same data.
C7_SharedInFlight ==
    \A q \in Texts :
        /\ outstanding[q] <= 1
        /\ \A s \in Observers(q) :
              query[q].has => options(s) = query[q].data

\* both sessions settled on "ab" while its one call is pending
C7_Witness ==
    /\ Observers(<<"a", "b">>) = Sessions
    /\ outstanding[<<"a", "b">>] = 1
    /\ query[<<"a", "b">>].fetch = "fetching"

\* C8 (as claimed): searchFn is called only in a step in which a session's
\* settled query changes to the text it is called with.
C8_NoAutomaticRetry ==
    [][ \A q \in Texts :
          outstanding'[q] > outstanding[q] =>
            \E s \in Sessions : /\ debouncedSearch'[s] # debouncedSearch[s]
                                /\ debouncedSearch'[s] = q
      ]_vars

\* C9: getLabel is "" for null and "", the embedded name for a pending
\* sentinel whatever the cache holds, the cached label for a cached id and the
\* id otherwise; the call changes nothing.
C9_GetLabelReference ==
    [][ \A s \in Sessions, id \in LabelArgs :
          GetLabel(s, id) =>
            /\ (id = Null \/ id = <<>>) => labelOut' = <<>>
            /\ (id # Null /\ startsWith(id, CREATED_PREFIX)) =>
                  /\ CREATED_PREFIX \o labelOut' = id
                  /\ labelOut' = getLabel(<< >>, id)
            /\ ( /\ id # Null /\ id # <<>> /\ ~startsWith(id, CREATED_PREFIX)
                 /\ id \in DOMAIN entityCache ) => labelOut' = entityCache[id].label
            /\ ( /\ id # Null /\ ~startsWith(id, CREATED_PREFIX)
                 /\ id \notin DOMAIN entityCache ) => labelOut' = id
            /\ UNCHANGED <<query, outstanding, entityCache>>
      ]_vars

\* the cache holds an entry under the sentinel string, and getLabel decoded
C9_Witness ==
    /\ NewX \in DOMAIN entityCache
    /\ entityCache[NewX].label = Beta
    /\ labelArg = NewX /\ labelOut = <<"X">>

\* C10 (as claimed): an id that is not in the cache yields itself, and only
\* null yields the empty string.
C10_FallbackAsClaimed ==
    [][ \A s \in Sessions, id \in LabelArgs :
          GetLabel(s, id) =>
            /\ (id # Null /\ id \notin DOMAIN entityCache) => labelOut' = id
            /\ labelOut' = <<>> => id = Null
      ]_vars

\* C10 (amended): an id that is no pending sentinel and is not in the cache
\* yields itself; the empty string comes only from null, "", the bare
\* prefix, or a cached label that is empty.
C10_Fallback ==
    [][ \A s \in Sessions, id \in LabelArgs :
          GetLabel(s, id) =>
            /\ ( /\ id # Null /\ ~startsWith(id, CREATED_PREFIX)
                 /\ id \notin DOMAIN entityCache ) => labelOut' = id
            /\ labelOut' = <<>> =>
                  \/ id = Null \/ id = <<>> \/ id = CREATED_PREFIX
                  \/ /\ id \in DOMAIN entityCache
                     /\ entityCache[id].label = <<>>
      ]_vars

C10_Witness ==
    /\ labelArg = c1 /\ c1 \notin DOMAIN entityCache /\ labelOut = c1


\* the reserved marker occurs somewhere in s
ContainsMarker(s) ==
    \E i \in 1..Len(s) :
        /\ i + Len(CREATED_PREFIX) - 1 <= Len(s)
        /\ SubSeq(s, i, i + Len(CREATED_PREFIX) - 1) = CREATED_PREFIX

\* id is the encoding of some name
IsEncoding(id) ==
    /\ id # Null
    /\ \E k \in 1..(Len(id) + 1) : id = CREATED_PREFIX \o SubSeq(id, k, Len(id))

\* C11: a non-empty name without the marker comes back unchanged from
\* parseCreatedName(makeCreatedValue(name)) and its encoding is a created
\* value; a value that is the encoding of no name is not a created value.
C11_CodecRoundTrip ==
    /\ (codecOut.op = "make" /\ codecArg # <<>> /\ ~ContainsMarker(codecArg)) =>
           /\ codecOut.name = codecArg
           /\ codecOut.created
    /\ (codecOut.op = "test" /\ ~IsEncoding(codecArg)) => ~codecOut.created

\* a name with the prefix's own characters went through the codec
C11_Witness ==
    /\ codecOut.op = "make"
    /\ codecArg = <<"_", ":", "X">>
    /\ codecOut.value = <<"_", "_", "n", "e", "w", ":", "_", ":", "X">>
    /\ codecOut.name = codecArg /\ codecOut.created

\* the value a create would store now
WouldStore == IF storeMode = "name" THEN hook.search ELSE CREATED_PREFIX \o hook.search

\* some option's label is the typed text, letter case aside
LabelTyped ==
    \E i \in 1..Len(hook.options) :
        toLowerCase(hook.options[i].label) = toLowerCase(hook.search)

\* C12 (as claimed): in the v4 creatable fields the create option is shown
\* exactly when text is typed, the hook is not loading, no option's label is
\* the typed text (letter case aside) and, in the multi field, the value a
\* create would store is not in the selection.
C12_CreateShownAsClaimed ==
    component \in {"v4", "v4multi"} =>
        ( createShown <=>
            /\ hook.search # <<>>
            /\ ~hook.isLoading
            /\ ~LabelTyped
            /\ component = "v4multi" => ~includes(selectedValues, WouldStore) )

\* some selected name (name mode) or the name of some selected sentinel (id
\* mode) is the typed text, letter case aside
NameSelected ==
    \E i \in 1..Len(selectedValues) :
        IF storeMode = "name"
        THEN toLowerCase(selectedValues[i]) = toLowerCase(hook.search)
        ELSE /\ IsEncoding(selectedValues[i])
             /\ toLowerCase(hook.search)
                   = toLowerCase(SubSeq(selectedValues[i], Len(CREATED_PREFIX) + 1,
                                        Len(selectedValues[i])))

\* C12 (amended): the create option is shown exactly when text is typed, the
\* hook is not loading, no option's label is the typed text and, in the multi
\* field, no selected name or selected sentinel's name is the typed text, all
\* comparisons letter case aside.
C12_CreateShown ==
    component \in {"v4", "v4multi"} =>
        ( createShown <=>
            /\ hook.search # <<>>
            /\ ~hook.isLoading
            /\ ~LabelTyped
            /\ component = "v4multi" => ~NameSelected )

\* "__new:Ac" is selected and "ac" is typed: the value a create would store
\* is not in the selection, and the create option is hidden
C12_Witness ==
    /\ component = "v4multi" /\ storeMode = "id"
    /\ selectedValues = <<makeCreatedValue(AcmeCorp)>>
    /\ hook.search = <<"a", "c">> /\ ~hook.isLoading /\ hook.options = <<>>
    /\ ~includes(selectedValues, WouldStore)
    /\ ~createShown

\* C13 (as claimed): in the v3 creatable field with the one option "Ac"
\* loaded and not loading, the create option is hidden when "Ac" is typed in
\* any letter case and shown when "A" is typed.
C13_CreateSuppressionV3 ==
    ( /\ component = "v3" /\ creatable
      /\ hook.options = <<Opt(c1, AcmeCorp)>> /\ ~hook.isLoading ) =>
        /\ toLowerCase(hook.search) = toLowerCase(AcmeCorp) => ~createShown
        /\ hook.search = Acme => createShown

Elements(list) == {list[i] : i \in 1..Len(list)}

\* what a pick of option o is to store in the current mode
PickStores(o) == IF storeMode = "name" THEN o.label ELSE o.value

\* C20: in the v4 creatable fields a pick stores the option's label (name
\* mode) or id (id mode), a create stores the typed text (name mode) or its
\* sentinel (id mode), and a pick or create of the multi field adds no other
\* value to the selection.
C20_StoredByMode ==
    [][ /\ \A i \in 1..Len(hook.options) :
             PickOption(i) =>
                /\ component = "v4" => fieldValue' = PickStores(hook.options[i])
                /\ component = "v4multi" =>
                      Elements(selectedValues') \subseteq
                          Elements(selectedValues) \cup {PickStores(hook.options[i])}
        /\ ClickCreate =>
                /\ component = "v4" => fieldValue' = WouldStore
                /\ component = "v4multi" =>
                      Elements(selectedValues') \subseteq
                          Elements(selectedValues) \cup {WouldStore}
      ]_vars

\* "A" was created in id mode while the option "Ac" was on offer
C20_Witness ==
    /\ component = "v4" /\ storeMode = "id"
    /\ hook.options = <<Opt(c1, AcmeCorp)>> /\ hook.search = <<>>
    /\ fieldValue = makeCreatedValue(Acme)

Ids(list) == {list[i].value : i \in 1..Len(list)}

\* the step leaves every search-result entry but that of q as it was
OtherSearchesKept(q) ==
    \A k \in Texts \ {q} : query'[k].has = query[k].has /\ query'[k].data = query[k].data

\* the step removes no entity entry and changes none but those of `written`
OtherEntitiesKept(written) ==
    /\ DOMAIN entityCache' = (DOMAIN entityCache) \cup written
    /\ \A id \in (DOMAIN entityCache) \ written : entityCache'[id] = entityCache[id]

\* C15: a search for q that resolves with R changes no search-result entry but
\* that of q and no entity entry but those of R's ids and removes none; a seed
\* changes no search-result entry and no entity entry but those it seeds.
C15_WritesOnlyItsKeys ==
    [][ /\ \A q \in Texts, r \in ResultLists :
             SearchResolve(q, r) => OtherSearchesKept(q) /\ OtherEntitiesKept(Ids(r))
        /\ \A s \in Sessions, e \in CacheSeedLists :
             SeedNoted(s, e) =>
                /\ \A k \in Texts : query'[k] = query[k]
                /\ OtherEntitiesKept(Ids(e))
      ]_vars

\* two search-result entries and a seeded entity that no search returns are
\* all in the cache
C15_Witness ==
    /\ query[<<"a">>].has /\ query[<<"a">>].data = <<>>
    /\ query[<<"a", "b">>].has
    /\ query[<<"a", "b">>].data = <<Opt(c1, AcmeInc), Opt(c2, Beta)>>
    /\ c3 \in DOMAIN entityCache /\ entityCache[c3] = Opt(c3, Gamma)
    /\ entityCache[c1] = Opt(c1, AcmeInc) /\ entityCache[c2] = Opt(c2, Beta)

\* a session other than s has a call of searchFn(q) pending
CallOfOther(s, q) ==
    /\ outstanding[q] > 0
    /\ \E s2 \in Sessions \ {s} : mounted[s2] /\ debouncedSearch[s2] = q

\* C16 (as claimed): when one session seeds while another session's search
\* is pending, the entity entries end up the same whether the seed or the
\* search result is written first.
C16_CommutativeAsClaimed ==
    [][ \A s \in Sessions, e \in CacheSeedLists :
          Seed(s, e) =>
            \A q \in Texts, r \in ResultLists :
                CallOfOther(s, q) =>
                    queryFnWrites(entityCache', r)
                        = setEach(queryFnWrites(entityCache, r), e)
      ]_vars

\* the two lists hold the same data for every id they share
Agree(e, r) ==
    \A i \in 1..Len(e), j \in 1..Len(r) : e[i].value = r[j].value => e[i] = r[j]

\* C16 (amended): every write leaves each id it names with the data it wrote
\* (the last write wins), and a seed and another session's search result end
\* up the same in either order when they agree on the ids they share.
C16_LastWriteWins ==
    [][ /\ entityCache' # entityCache =>
             \A s \in Sessions, e \in CacheSeedLists :
                Seed(s, e) =>
                   /\ \A i \in 1..Len(e) : entityCache'[e[i].value] = e[i]
                   /\ \A q \in Texts, r \in ResultLists :
                         (CallOfOther(s, q) /\ Agree(e, r)) =>
                             queryFnWrites(entityCache', r)
                                 = setEach(queryFnWrites(entityCache, r), e)
        /\ entityCache' # entityCache =>
             \A q \in Texts, r \in ResultLists :
                SearchResolve(q, r) =>
                   \A i \in 1..Len(r) : entityCache'[r[i].value] = r[i]
      ]_vars

\* the search of s2 wrote c1 as "Ai", then s1 seeded c1 as "A": the seed's
\* label is the one in the cache
C16_Witness ==
    /\ mounted["s1"] /\ mounted["s2"]
    /\ debouncedSearch["s2"] = <<"a", "b">>
    /\ query[<<"a", "b">>].has
    /\ query[<<"a", "b">>].data = <<Opt(c1, AcmeInc), Opt(c2, Beta)>>
    /\ entityCache[c1] = Opt(c1, Acme) /\ entityCache[c2] = Opt(c2, Beta)

\* every entry of e is in the cache as e has it
Seeded(e) ==
    \A i \in 1..Len(e) :
        e[i].value \in DOMAIN entityCache /\ entityCache[e[i].value] = e[i]

\* C17: a seed that repeats the seed before it, whose entries are still in
\* the cache, leaves the set of cache keys and what getLabel returns for
\* every id as they were.
C17_SeedIdempotent ==
    [][ \A s \in Sessions, e \in CacheSeedLists :
          (SeedNoted(s, e) /\ seedNote.last = e /\ Seeded(e)) =>
            /\ DOMAIN entityCache' = DOMAIN entityCache
            /\ \A id \in LabelArgs \cup {c3} :
                  getLabel(entityCache', id) = getLabel(entityCache, id)
      ]_vars

\* c1 was seeded twice in a row, with no search in between
C17_Witness ==
    /\ seedNote = [last |-> <<Opt(c1, Acme)>>, times |-> 2]
    /\ DOMAIN entityCache = {c1} /\ entityCache[c1] = Opt(c1, Acme)
    /\ \A q \in Texts : ~query[q].has

\* C18: the resolver returns one entry per position of ids, in input order,
\* each with the id of its position; equal ids get equal labels, and no id has
\* more than one queryFn call pending however often it is in the list.
C18_OnePerPosition ==
    /\ \A id \in ResolveIds : idFetch[id] <= 1
    /\ ids # NoIds =>
          /\ Len(resolved) = Len(ids)
          /\ \A i \in 1..Len(ids) : resolved[i].id = ids[i]
          /\ \A i, j \in 1..Len(ids) :
                ids[i] = ids[j] => resolved[i].label = resolved[j].label

\* [c2, c1, c2] on a cold cache: three entries, one call for c2
C18_Witness ==
    /\ component = "v3"
    /\ ids = <<c2, c1, c2>>
    /\ DOMAIN entityCache = {}
    /\ idFetch[c2] = 1 /\ idFetch[c1] = 1
    /\ Len(resolved) = 3
    /\ resolved[1].id = c2 /\ resolved[2].id = c1 /\ resolved[3].id = c2

\* every cached real id of the list is shown with its cached label, not loading
CachedShown ==
    ids # NoIds =>
        \A i \in 1..Len(ids) :
            (ids[i] \in DOMAIN entityCache /\ ~IsEncoding(ids[i])) =>
                /\ resolved[i].label = entityCache[ids[i]].label
                /\ ~resolved[i].isLoading

\* C19: a real id whose entry is in the cache is reported with the cached
\* label and not loading, whatever the fetches of the other ids do, and
\* rendering the resolver calls no queryFn for an id that is in the cache.
C19_CachedIdIndependent ==
    /\ []CachedShown
    /\ [][ (ids' # ids /\ ids' # NoIds /\ Resolve(ids')) =>
             \A id \in ResolveIds :
                id \in DOMAIN entityCache => idFetch'[id] = idFetch[id]
         ]_vars

\* c1 is seeded and shown as "A" while the fetch of c2 is pending
C19_Witness ==
    /\ component = "v3"
    /\ ids = <<c1, c2>>
    /\ DOMAIN entityCache = {c1} /\ entityCache[c1] = Opt(c1, Acme)
    /\ idFetch[c1] = 0 /\ idFetch[c2] = 1
    /\ resolved[1] = [id |-> c1, label |-> Acme, isLoading |-> FALSE]
    /\ resolved[2].isLoading

\* C21: searchFn is never called with a settled query shorter than minChars,
\* whatever minChars is configured and whatever is typed: every call that has
\* not settled yet, and every query that is fetching or waiting for a retry,
\* is for a text of at least minChars characters.
C21_MinCharsGate ==
    \A q \in Texts :
        (outstanding[q] > 0 \/ query[q].fetch # "idle" \/ query[q].wait)
            => Len(q) >= minChars

\* a text shorter than minChars has settled in a field that searched a longer
\* text before
C21_Witness ==
    /\ minChars = 2
    /\ mounted["s1"]
    /\ search["s1"] = <<"a">>
    /\ debouncedSearch["s1"] = <<"a">>
    /\ timer["s1"] = Off
    /\ query[<<"a", "b">>].has

\* the search-result entry of q is present and younger than staleTime
Fresh(q) == query[q].has /\ ~query[q].stale

\* C22: when the search-result entry of the settled query is present and
\* younger than staleTime, the session's options are the cached list, and no
\* step calls searchFn for a query whose entry is fresh: neither the settling
\* of a field on it nor a retry.
C22_CacheHit ==
    /\ [](\A s \in Sessions :
            (mounted[s] /\ Fresh(debouncedSearch[s]))
                => /\ options(s) = query[debouncedSearch[s]].data
                   /\ ~isLoading(s))
    /\ [][\A q \in Texts : Fresh(q) => outstanding'[q] <= outstanding[q]]_vars

\* the field has settled on "a" again after searching "a" and "ab": both
\* entries are fresh, nothing is in flight and the cached list is what it shows
C22_Witness ==
    /\ mounted["s1"]
    /\ search["s1"] = <<"a">>
    /\ debouncedSearch["s1"] = <<"a">>
    /\ timer["s1"] = Off
    /\ lastKey["s1"] = <<"a">>
    /\ Fresh(<<"a">>)
    /\ Fresh(<<"a", "b">>)
    /\ query[<<"a">>].data # query[<<"a", "b">>].data
    /\ \A q \in Texts : outstanding[q] = 0
    /\ options("s1") = query[<<"a">>].data

\* C23: an entry addressed by id, once written by a search result or a seed,
\* stays in the cache and getLabel(id) keeps answering with a written label,
\* never with the id itself, whatever searches, seeds, failures, mounts and
\* unmounts follow (nothing in the model invalidates an entry).
C23_EntryPersists ==
    [][\A id \in DOMAIN entityCache :
          /\ id \in DOMAIN entityCache'
          /\ getLabel(entityCache', id) # id]_vars

\* C24: in CreatableEntityMultiSearchField, starting from a selection without
\* duplicate created values, no sequence of picks, creates and removals leads
\* to a selection with two created values of the same name compared
\* case-insensitively: two equal names in name mode, two sentinels with equal
\* names in id mode.
C24_NoDuplicateCreated ==
    component = "v4multi" => NoDuplicateNames(storeMode, selectedValues)

\* what the rendered multi-value field's submit handler does with value val
Submitted(val) ==
    CASE component = "multi" -> handleSelect(selectedValues, val, maxValues)
      [] component = "v3multi" -> handleSelect_v3(selectedValues, val, maxValues)
      [] OTHER -> handleSubmitMulti(selectedValues,
                                    handleSubmit(storeMode, hook.search, val),
                                    maxValues)

\* the value of the i-th rendered option
Rendered(i) ==
    IF component = "v4multi" THEN optionValue(storeMode, hook.options[i])
    ELSE hook.options[i].value

\* C30: in EntityMultiSearchField and CreatableEntityMultiSearchField with
\* maxValues > 0, starting from at most maxValues values, the selection never
\* holds more than maxValues values after any option submits, creates, pill
\* removals and backspaces; and submitting a value that is selected removes
\* it, also when the selection is at the cap: the handler's result drops it,
\* and so does every step that picks its option.
C30_MaxValuesCap ==
    /\ [](maxValues > 0 =>
            /\ Len(selectedValues) <= maxValues
            /\ \A k \in 1..Len(selectedValues) :
                 LET r == Submitted(selectedValues[k])
                 IN (selectedValues[k] # CREATE_SENTINEL)
                        => /\ r.done
                           /\ r.f = filterOut(selectedValues, selectedValues[k]))
    /\ [][\A i \in 1..Len(hook.options) :
            (/\ maxValues > 0
             /\ includes(selectedValues, Rendered(i))
             /\ PickOption(i))
                => /\ ~includes(selectedValues', Rendered(i))
                   /\ Len(selectedValues') < Len(selectedValues)]_vars

\* a creatable field capped at one value holds a name that was created in it
\* (the search box was emptied by the submit), and the option of another
\* value is on offer: the selection is at the cap
C30_Witness ==
    /\ component = "v4multi" /\ storeMode = "name"
    /\ maxValues = 1
    /\ selectedValues = <<Acme>>
    /\ hook.search = <<>>
    /\ Len(hook.options) > 0

\* C29: once the entry of an id holds an entity written by a search result or
\* a seed, useResolvedLabels never replaces it with the raw-id placeholder
\* {id, label = id}: a fallback queryFn that was started while the cache was
\* cold and completes after the write leaves the real label in place.
C29_PlaceholderNeverOverwrites ==
    [][\A id \in DOMAIN entityCache :
          entityCache[id] # Opt(id, id)
              => /\ id \in DOMAIN entityCache'
                 /\ entityCache'[id] # Opt(id, id)]_vars

\* the create option of a creatable field rendered over session s
CreateShownOver(s) == showCreate(search[s], isLoading(s), options(s))

\* C28: whenever the create option is shown for the typed text t, the options
\* it was compared against are the results of a completed search for t: t has
\* settled (no debounce window is open), the query of t has data, and the
\* options are that data and not the data of an earlier query kept as
\* placeholder.
C28_CreateAgainstOwnResults ==
    \A s \in Sessions :
        (mounted[s] /\ CreateShownOver(s))
            => /\ timer[s] = Off
               /\ debouncedSearch[s] = search[s]
               /\ query[search[s]].has
               /\ ~Data(s).placeholder
               /\ options(s) = query[search[s]].data

\* C25: after a saveDraft call whose onSaveDraft resolves, with resetAfterSave
\* at its default (true), the form's dirty baseline is the values that were
\* saved, isDirty is false, status is "saved" and lastSavedAt is set.
C25_SavedIsBaseline ==
    [][(lastSavedAt' # lastSavedAt /\ resetAfterSave)
          => /\ \E i \in 1..Len(inflight) : inflight[i] = draftNote'.saved
             /\ form'.defaultValues = draftNote'.saved
             /\ ~isDirty(form')
             /\ status' = "saved"
             /\ lastSavedAt' # 0]_vars

\* a save of values the user typed has resolved: they are the baseline now
C25_Witness ==
    /\ resetAfterSave
    /\ lastSavedAt > 0
    /\ status = "saved"
    /\ draftNote.saved = [name |-> <<"x", "y">>, bio |-> <<"b">>]
    /\ form.defaultValues = draftNote.saved
    /\ ~isDirty(form)

\* the message of the last issue that names field x
LastMessage(issues, x) ==
    LET at == {i \in 1..Len(issues) : issues[i].path = x}
    IN issues[CHOOSE i \in at : \A j \in at : j <= i].message

\* C26: if a draftSchema is given and the form's values fail it, saveDraft
\* does not call onSaveDraft, sets status to "error", sets the errors of each
\* failing field to the issue message (the last one, when a field has several
\* issues), and leaves the other fields' meta, the form's values and
\* lastSavedAt as they were.
C26_DraftSchemaBlocks ==
    [][LET issues == safeParse(draftSchema, form.values)
       IN (/\ draftNote'.calls # draftNote.calls
           /\ draftSchema # "none"
           /\ issues # <<>>)
            => /\ draftNote'.sent = draftNote.sent
               /\ inflight' = inflight
               /\ status' = "error"
               /\ \A x \in FormFields :
                    IF \E i \in 1..Len(issues) : issues[i].path = x
                    THEN /\ form'.fieldMeta[x].errors = <<LastMessage(issues, x)>>
                         /\ form'.fieldMeta[x].isDirty = form.fieldMeta[x].isDirty
                    ELSE form'.fieldMeta[x] = form.fieldMeta[x]
               /\ form'.values = form.values
               /\ form'.defaultValues = form.defaultValues
               /\ lastSavedAt' = lastSavedAt]_vars

\* a save of an empty form was blocked by a schema that asks for both fields
C26_Witness ==
    /\ draftSchema = "both"
    /\ status = "error"
    /\ draftNote.calls > 0 /\ draftNote.sent = 0
    /\ form.fieldMeta["name"].errors = <<"Name required">>
    /\ form.fieldMeta["bio"].errors = <<"Bio required">>
    /\ form.values = [name |-> <<>>, bio |-> <<>>]
    /\ lastSavedAt = 0

\* C27: saveDraft never changes a field value of the form: neither the call
\* nor its completion, so what the user edits while onSaveDraft is in flight
\* (also when the edit starts an overlapping auto-save) is still in the form
\* after the save completes.
C27_SaveKeepsValues ==
    [][(draftNote'.calls # draftNote.calls \/ inflight' # inflight)
          => form'.values = form.values]_vars

====
